---- MODULE Spec2Model ----
(***************************************************************************)
(* Model of the device-session engine of SensorApp: AppState               *)
(* (models/app_state.py), its discovery and test worker threads, the       *)
(* hand-off queue and the Subject/Observer dispatch (observers/base.py),   *)
(* and the view handlers that drive AppState (views/*.py).                 *)
(*                                                                         *)
(* Threads: one foreground (Tk main loop) thread whose position is fgpc,   *)
(* and worker threads 1..MaxThreads created by threading.Thread(...).      *)
(* A blocking driver call of a worker is two steps: the call begins (the   *)
(* worker's pc names the call) and the call returns with an outcome.       *)
(***************************************************************************)
EXTENDS Integers, Sequences, FiniteSets, TLC

(* ---------------------------- bounds ----------------------------------- *)
\* The slave-address space is 0..MaxSlaveId; the source uses 255
\* (sensor_id_test_notebook.py:98), scaled down to keep the model finite.
MaxSlaveId == 1
\* Worker threads ever created in one behaviour.
MaxThreads == 2
\* Serial clients (handles) ever constructed in one behaviour.
MaxConnects == 2

(* ---------------------------- values ----------------------------------- *)
\* Python None for slave ids / handles / thread references.
NoneId == 0 - 2
\* An event queued or notified without keyword payload.
NoArg == 0 - 3
\* threading.Lock not held.
LockFree == 0

SlaveIds == 0..MaxSlaveId
Threads == 1..MaxThreads
Handles == 1..MaxConnects

\* for s_id in range(0, 255): the stop value of the scan is the top address.
ScanStop == MaxSlaveId
ScanRange == 0..(ScanStop - 1)

VARIABLES
    client,            \* AppState._client: NoneId or a handle
    cproto,            \* AppState._client.protocol
    closed,            \* handles that were disconnected
    broken,            \* handles whose serial port could not be opened,
                       \* as long as the client or a driver call refers to them
    nhandles,          \* handles constructed so far
    connected,         \* AppState._is_client_connected
    slave_id,          \* AppState._slave_id
    restart_missing,   \* AppState._restart_missing
    cancel_fetch,      \* AppState._cancel_fetch (threading.Event)
    cancel_test,       \* AppState._cancel_test (threading.Event)
    lock,              \* AppState._client_lock: LockFree or the owner
    fetch_thread,      \* AppState._fetch_thread
    test_thread,       \* AppState._test_thread
    test_thread_sdi12, \* AppState._test_thread_sdi12
    th,                \* the worker threads
    nthreads,          \* worker threads created so far
    queue,             \* AppState.queue: what check_queue will still dispatch
    fgpc,              \* position of the foreground thread
    fgret,             \* where the foreground returns to after a teardown
    dsleep,            \* test workers that slept when the teardown began
    pollAlive,         \* MainApp._check_queue is still rescheduled
    lastCfg,           \* history: the address the last configure moved to
    devAddr,           \* the address the device on the bus answers at
    sent,              \* history: the events each worker has queued
    recv,              \* history: the events each observer was handed
    ndisconnected,     \* history: client_disconnected notifications so far
    bcast,             \* the device answers a read at the broadcast address
    nrejected,         \* history: configure requests turned down so far
    attached,          \* Subject._observers, in the order of attachment
    nattach            \* history: calls of Subject.attach so far

vars == <<client, cproto, closed, broken, nhandles, connected, slave_id,
          restart_missing, cancel_fetch, cancel_test, lock, fetch_thread,
          test_thread, test_thread_sdi12, th, nthreads, queue, fgpc, fgret,
          dsleep, pollAlive, lastCfg, devAddr,
          sent, recv, ndisconnected, bcast, nrejected,
                   attached, nattach>>

(* ---------------------------- helpers ---------------------------------- *)
\* MainApp.__init__, lines 26-38, attaches four observers, in this order:
\* SensorSelectionNoteBook, SensorIdTestNotebook, LoggingFrame,
\* SensorSettingsFrame.
NObservers == 4
Observers == 1..NObservers

Ev(type, arg) == [type |-> type, arg |-> arg]

\* A worker thread: its kind, its position, its locals (sid, hnd, addr) and
\* its history. log: the events a discovery run has put on the queue (of a
\* test worker, the sensor_test_cancelled events only); ios:
\* the addresses it has read or probed; creq: cancellation was requested
\* while it ran; clean: while it ran, neither the recorded address, the
\* restart flag nor the device's address changed and no transport error hit
\* it; cfg: the address the last configure moved the device to, when the
\* thread was created; err: the exception that left one of its driver
\* calls, or "none".
NoThread == [kind |-> "none", pc |-> "none", sid |-> 0, hnd |-> NoneId,
             addr |-> NoneId, log |-> <<>>, ios |-> <<>>, creq |-> FALSE,
             clean |-> TRUE, cfg |-> NoneId, err |-> "none"]

NewThread(kind) == [NoThread EXCEPT !.kind = kind, !.pc = "start"]

\* Positions of a thread that does not run.
Dead == {"none", "done", "crashed", "gone"}

\* threading.Thread.is_alive()
Alive(t) == th[t].pc \notin Dead
IsAlive(ref) == ref # NoneId /\ Alive(ref)

\* The record of a thread that has ended is kept until the foreground's
\* next callback begins.
Reap(thr) ==
    [t \in Threads |->
        IF thr[t].pc \in {"done", "crashed"}
        THEN [NoThread EXCEPT !.pc = "gone"] ELSE thr[t]]

\* History: a cancel request reaches every live worker of that kind.
MarkCancel(thr, kinds) ==
    [t \in Threads |->
        IF thr[t].kind \in kinds /\ thr[t].pc \notin Dead
        THEN [thr[t] EXCEPT !.creq = TRUE] ELSE thr[t]]

\* History: the recorded address, the restart flag or the device's address
\* changed while the worker was running.
MarkDirty(thr) ==
    [t \in Threads |->
        IF thr[t].pc \notin Dead
        THEN [thr[t] EXCEPT !.clean = FALSE] ELSE thr[t]]

\* A live worker holds handle h in its locals.
InUse(h) == \E t \in Threads : th[t].hnd = h /\ Alive(t)

\* The device on the bus answers a request sent to address a: to its own
\* address, or to the broadcast address 0 when it answers broadcast reads
\* (Sensor.can_broadcast_read).
Answers(a) ==
    /\ a # NoneId /\ devAddr # NoneId
    /\ a = devAddr \/ (bcast /\ a = 0)

\* Outcomes of one driver call on handle h at address a. A wrapper whose
\* port could not be opened has client = None and the call raises
\* AttributeError; a closed handle may do anything; an open one answers iff
\* the device answers at a; a transport error (OSError) can hit any call.
IoOutcomes(h, a) ==
    IF h \in broken THEN {"attr_error"}
    ELSE IF h \in closed THEN {"ok", "modbus_exc", "oserror"}
    ELSE (IF Answers(a) THEN {"ok"} ELSE {"modbus_exc"})
         \cup {"oserror"}

\* try_current_slave_id, modbus_sensors_library.py lines 112-119: what a
\* positive probe of address a returns is the slave_id field of the
\* response. A device that answers a broadcast read puts the request's
\* address or its own there; on a closed handle the field is a's.
ProbeReply(a) ==
    IF devAddr # NoneId /\ Answers(a) THEN {a, devAddr} ELSE {a}

\* SensorSelectionNoteBook.update_event(event_type, data=None) is the first
\* observer and accepts no other keyword: notify raises TypeError for an
\* event that carries a payload, before any later observer sees it.
NotifyRaises(ev) == ev.arg # NoArg

(* ---------------------------- initial state ---------------------------- *)
\* MainApp.__init__, lines 26-38: the four observers are attached.
MainAppAttached ==
    /\ attached = [i \in 1..NObservers |-> i]
    /\ nattach = NObservers

\* AppState.__init__, lines 23-42, and the device on the bus.
InitSession ==
    /\ client = NoneId
    /\ cproto = "none"
    /\ closed = {}
    /\ broken = {}
    /\ nhandles = 0
    /\ connected = FALSE
    /\ slave_id = NoneId
    /\ restart_missing = FALSE
    /\ cancel_fetch = FALSE
    /\ cancel_test = FALSE
    /\ lock = LockFree
    /\ fetch_thread = NoneId
    /\ test_thread = NoneId
    /\ test_thread_sdi12 = NoneId
    /\ th = [t \in Threads |-> NoThread]
    /\ nthreads = 0
    /\ queue = <<>>
    /\ fgpc = "idle"
    /\ fgret = "idle"
    /\ dsleep = {}
    /\ pollAlive = TRUE
    /\ lastCfg = NoneId
    /\ devAddr \in SlaveIds \cup {NoneId}
    /\ sent = [w \in Threads |-> <<>>]
    /\ recv = [o \in Observers |-> <<>>]
    /\ ndisconnected = 0
    /\ nrejected = 0

\* The session of a device that answers at its own address only.
Init == InitSession /\ bcast = FALSE /\ MainAppAttached

(* ---------------------------- discovery worker ------------------------- *)
\* Variables no worker step changes.
fgVars == <<client, cproto, closed, broken, nhandles, connected, slave_id,
            restart_missing, fetch_thread, test_thread, test_thread_sdi12,
            nthreads, fgpc, fgret, dsleep, pollAlive, lastCfg, devAddr,
                   sent, recv, ndisconnected, bcast, nrejected,
                   attached, nattach>>

\* The locals of a thread die with it.
Ended(r) ==
    IF r.pc \in {"done", "crashed"}
    THEN [r EXCEPT !.sid = 0, !.hnd = NoneId, !.addr = NoneId]
    ELSE r

\* The part of a queue content check_queue dispatches: up to and including
\* the first event whose dispatch raises, which ends the poll for good.
Reach(q) ==
    IF \E i \in 1..Len(q) : NotifyRaises(q[i])
    THEN SubSeq(q, 1, CHOOSE i \in 1..Len(q) :
                        /\ NotifyRaises(q[i])
                        /\ \A j \in 1..(i - 1) : ~NotifyRaises(q[j]))
    ELSE q

\* _queue_notify, lines 53-55: queue.put. What check_queue will never
\* get to is not recorded.
Put(evs) == queue' = IF pollAlive THEN Reach(queue \o evs) ELSE queue

\* What the log of a worker of the given kind keeps of evs: a discovery
\* run keeps every event, a test worker the sensor_test_cancelled events.
Logged(kind, evs) ==
    IF kind = "fetch" THEN evs
    ELSE SelectSeq(evs, LAMBDA e : e.type = "sensor_test_cancelled")

\* Worker t moves to pc, having put evs on the queue.
Step(t, pc, evs) ==
    /\ th' = [th EXCEPT ![t] = Ended([th[t] EXCEPT !.pc = pc,
                  !.log = @ \o Logged(th[t].kind, evs)])]
    /\ Put(evs)

\* Worker t dies of an exception nothing catches: exc is the outcome of
\* the driver call that raised it, or "none" when no driver call did.
Crash(t, exc) ==
    /\ th' = [th EXCEPT ![t] = Ended([th[t] EXCEPT !.pc = "crashed",
                                        !.clean = @ /\ exc = "none",
                                        !.err = exc])]
    /\ UNCHANGED queue

\* Mutant of WithLockExit: an exception that leaves the block leaves the
\* lock held.
WithLockExit_OnReturnOnly(o) ==
    lock' = IF o \in {"ok", "modbus_exc"} THEN LockFree ELSE lock

\* `with self._client_lock:`, lines 85 and 118, is left after a driver call
\* with outcome o, by a return or by an exception: the lock is released.
WithLockExit(o) == lock' = LockFree

\* fetch_slave_id_thread, lines 59-63: clear the cancel flag, announce the
\* verification of a recorded address.
FetchStart(t) ==
    /\ th[t].kind = "fetch" /\ th[t].pc = "start"
    /\ cancel_fetch' = FALSE
    /\ IF slave_id # NoneId
       THEN Step(t, "tc_enter", <<Ev("verifying_current_id", slave_id)>>)
       ELSE Step(t, "f_restart", <<>>)
    /\ UNCHANGED <<fgVars, cancel_test, lock>>

\* test_current_id, lines 77-84 and 105.
TestCurrentIdEnter(t) ==
    /\ th[t].kind = "fetch" /\ th[t].pc = "tc_enter"
    /\ IF ~cancel_fetch /\ client # NoneId /\ slave_id # NoneId
       THEN Step(t, "tc_lock", <<>>)
       ELSE Step(t, "f_restart", <<>>)
    /\ UNCHANGED <<fgVars, cancel_fetch, cancel_test, lock>>

\* test_current_id, lines 85-94: take the lock, re-check, begin the read
\* with the lock held.
TestCurrentIdLock(t) ==
    /\ th[t].kind = "fetch" /\ th[t].pc = "tc_lock"
    /\ lock = LockFree
    /\ IF client = NoneId \/ cancel_fetch
       THEN /\ Step(t, "f_restart", <<Ev("slave_id_invalid", slave_id)>>)
            /\ UNCHANGED lock
       ELSE /\ th' = [th EXCEPT ![t].pc = "tc_io", ![t].hnd = client,
                                ![t].addr = slave_id,
                                ![t].ios = Append(@, slave_id)]
            /\ lock' = t
            /\ UNCHANGED queue
    /\ UNCHANGED <<fgVars, cancel_fetch, cancel_test>>

\* Mutant of TestCurrentIdReturn: a successful verification read reports
\* slave_id_valid and goes on to the scan.
TestCurrentIdReturn_Rescan(t) ==
    /\ th[t].kind = "fetch" /\ th[t].pc = "tc_io"
    /\ \E o \in IoOutcomes(th[t].hnd, th[t].addr) :
         CASE o = "ok" ->
                Step(t, "f_restart", <<Ev("slave_id_valid", slave_id)>>)
           [] o = "modbus_exc" ->
                Step(t, "f_restart", <<Ev("slave_id_invalid", slave_id)>>)
           [] OTHER ->
                Crash(t, o)
    /\ lock' = LockFree
    /\ UNCHANGED <<fgVars, cancel_fetch, cancel_test>>

\* test_current_id, lines 92-104, and fetch_slave_id_thread, lines 64-68:
\* the read returns.
TestCurrentIdReturn(t) ==
    /\ th[t].kind = "fetch" /\ th[t].pc = "tc_io"
    /\ \E o \in IoOutcomes(th[t].hnd, th[t].addr) :
         /\ CASE o = "ok" ->
                Step(t, "done", <<Ev("slave_id_valid", slave_id),
                                  Ev("current_id_valid", slave_id)>>)
              [] o = "modbus_exc" ->
                Step(t, "f_restart", <<Ev("slave_id_invalid", slave_id)>>)
              [] OTHER ->
                Crash(t, o)
         /\ WithLockExit(o)
    /\ UNCHANGED <<fgVars, cancel_fetch, cancel_test>>

\* Mutant of FetchRestartGate: restart_missing is not consulted.
FetchRestartGate_NoGate(t) ==
    /\ th[t].kind = "fetch" /\ th[t].pc = "f_restart"
    /\ IF client # NoneId
       THEN /\ th' = [th EXCEPT ![t].pc = "fs_loop", ![t].sid = 0,
                        ![t].log = Append(@, Ev("fetching_slave_id", NoArg))]
            /\ Put(<<Ev("fetching_slave_id", NoArg)>>)
       ELSE Step(t, "done", <<Ev("fetching_slave_id", NoArg)>>)
    /\ UNCHANGED <<fgVars, cancel_fetch, cancel_test, lock>>

\* fetch_slave_id_thread, lines 69-73, and fetch_sensor_id, lines 109-110.
FetchRestartGate(t) ==
    /\ th[t].kind = "fetch" /\ th[t].pc = "f_restart"
    /\ IF restart_missing
       THEN Step(t, "done", <<Ev("reboot_required", NoArg)>>)
       ELSE IF client # NoneId
            THEN /\ th' = [th EXCEPT ![t].pc = "fs_loop", ![t].sid = 0,
                             ![t].log = Append(@, Ev("fetching_slave_id", NoArg))]
                 /\ Put(<<Ev("fetching_slave_id", NoArg)>>)
            ELSE Step(t, "done", <<Ev("fetching_slave_id", NoArg)>>)
    /\ UNCHANGED <<fgVars, cancel_fetch, cancel_test, lock>>

\* Mutant of FetchLoop: an address is probed without being announced.
FetchLoop_NoAnnounce(t) ==
    /\ th[t].kind = "fetch" /\ th[t].pc = "fs_loop"
    /\ IF th[t].sid \notin ScanRange
       THEN Step(t, "done", <<Ev("slave_id_fetch_error", NoArg)>>)
       ELSE IF cancel_fetch
            THEN Step(t, "done", <<Ev("slave_id_fetch_cancelled", NoArg)>>)
            ELSE Step(t, "fs_lock", <<>>)
    /\ UNCHANGED <<fgVars, cancel_fetch, cancel_test, lock>>

\* fetch_sensor_id, lines 111-117 and 135: one turn of the for loop.
FetchLoop(t) ==
    /\ th[t].kind = "fetch" /\ th[t].pc = "fs_loop"
    /\ IF th[t].sid \notin ScanRange
       THEN Step(t, "done", <<Ev("slave_id_fetch_error", NoArg)>>)
       ELSE IF cancel_fetch
            THEN Step(t, "done", <<Ev("slave_id_fetch_cancelled", NoArg)>>)
            ELSE Step(t, "fs_lock", <<Ev("fetching_slave_id", th[t].sid)>>)
    /\ UNCHANGED <<fgVars, cancel_fetch, cancel_test, lock>>

\* fetch_sensor_id, lines 118-122: take the lock and begin the probe with
\* the lock held; self._client.client fails when the client is gone.
FetchProbeBegin(t) ==
    /\ th[t].kind = "fetch" /\ th[t].pc = "fs_lock"
    /\ lock = LockFree
    /\ IF client = NoneId
       THEN /\ Crash(t, "none")
            /\ UNCHANGED lock
       ELSE /\ th' = [th EXCEPT ![t].pc = "fs_io", ![t].hnd = client,
                                ![t].addr = th[t].sid,
                                ![t].ios = Append(@, th[t].sid)]
            /\ lock' = t
            /\ UNCHANGED queue
    /\ UNCHANGED <<fgVars, cancel_fetch, cancel_test>>

\* Mutant of FetchProbeReturn: after an OSError the scan goes on with the
\* next address.
FetchProbeReturn_Continue(t) ==
    /\ th[t].kind = "fetch" /\ th[t].pc = "fs_io"
    /\ \E o \in IoOutcomes(th[t].hnd, th[t].addr) :
         CASE o = "ok" ->
                \E r \in ProbeReply(th[t].addr) :
                    Step(t, "done", <<Ev("slave_id_fetched", r)>>)
           [] o = "modbus_exc" ->
                /\ th' = [th EXCEPT ![t].pc = "fs_loop", ![t].sid = @ + 1]
                /\ UNCHANGED queue
           [] o = "oserror" ->
                /\ th' = [th EXCEPT ![t].pc = "fs_loop", ![t].sid = @ + 1,
                                    ![t].clean = FALSE, ![t].err = o]
                /\ UNCHANGED queue
           [] OTHER ->
                Crash(t, o)
    /\ lock' = LockFree
    /\ UNCHANGED <<fgVars, cancel_fetch, cancel_test>>

\* fetch_sensor_id, lines 120-134: the probe returns.
FetchProbeReturn(t) ==
    /\ th[t].kind = "fetch" /\ th[t].pc = "fs_io"
    /\ \E o \in IoOutcomes(th[t].hnd, th[t].addr) :
         /\ CASE o = "ok" ->
                \E r \in ProbeReply(th[t].addr) :
                    Step(t, "done", <<Ev("slave_id_fetched", r)>>)
              [] o = "modbus_exc" ->
                /\ th' = [th EXCEPT ![t].pc = "fs_loop", ![t].sid = @ + 1]
                /\ UNCHANGED queue
              [] o = "oserror" ->
                /\ th' = [th EXCEPT ![t] = Ended([th[t] EXCEPT
                             !.pc = "done", !.clean = FALSE, !.err = o,
                             !.log = Append(@, Ev("slave_id_fetch_cancelled", NoArg))])]
                /\ Put(<<Ev("slave_id_fetch_cancelled", NoArg)>>)
              [] OTHER ->
                Crash(t, o)
         /\ WithLockExit(o)
    /\ UNCHANGED <<fgVars, cancel_fetch, cancel_test>>

(* ---------------------------- test workers ----------------------------- *)
TestKinds == {"test", "test_sdi12"}

\* test_sensor_thread / test_sensor_thread_sdi12, lines 139-140, 177-178.
TestStart(t) ==
    /\ th[t].kind \in TestKinds /\ th[t].pc = "start"
    /\ cancel_test' = FALSE
    /\ Step(t, IF client # NoneId THEN "t_loop" ELSE "done", <<>>)
    /\ UNCHANGED <<fgVars, cancel_fetch, lock>>

\* while not self._cancel_test.is_set(), lines 141, 179, on entry and
\* after time.sleep(1), lines 173, 216.
TestLoop(t) ==
    /\ th[t].kind \in TestKinds /\ th[t].pc \in {"t_loop", "t_sleep"}
    /\ Step(t, IF cancel_test THEN "done" ELSE "t_lock", <<>>)
    /\ UNCHANGED <<fgVars, cancel_fetch, cancel_test, lock>>

\* Lines 142-155, 180-193: snapshot under the lock, release it, then begin
\* the driver call without the lock.
TestSnapshot(t) ==
    /\ th[t].kind \in TestKinds /\ th[t].pc = "t_lock"
    /\ lock = LockFree
    /\ IF client = NoneId \/ slave_id = NoneId
       THEN Step(t, "done", <<Ev("sensor_test_cancelled", NoArg)>>)
       ELSE /\ th' = [th EXCEPT ![t].pc = "t_io", ![t].hnd = client,
                                ![t].addr = slave_id]
            /\ UNCHANGED queue
    /\ UNCHANGED <<fgVars, cancel_fetch, cancel_test, lock>>

\* The worker stops with sensor_test_cancelled or reports and sleeps.
TestReport(t, type) ==
    IF cancel_test
    THEN Step(t, "done", <<Ev("sensor_test_cancelled", NoArg)>>)
    ELSE Step(t, "t_sleep", <<Ev(type, 1)>>)

\* test_sensor_thread, lines 152-172: read_sensor returns; only
\* ModbusException is caught.
TestReadReturn(t) ==
    /\ th[t].kind = "test" /\ th[t].pc = "t_io"
    /\ \E o \in IoOutcomes(th[t].hnd, th[t].addr) :
         CASE o = "ok" -> TestReport(t, "sensor_test_success")
           [] o = "modbus_exc" -> TestReport(t, "sensor_test_failure")
           [] OTHER ->
                Crash(t, o)
    /\ UNCHANGED <<fgVars, cancel_fetch, cancel_test, lock>>

\* test_sensor_thread_sdi12, lines 190-196 and 205-215:
\* request_to_take_measurements returns; every Exception is caught.
Sdi12RequestReturn(t) ==
    /\ th[t].kind = "test_sdi12" /\ th[t].pc = "t_io"
    /\ \E o \in IoOutcomes(th[t].hnd, th[t].addr) :
         IF o = "ok"
         THEN IF cancel_test
              THEN Step(t, "done", <<Ev("sensor_test_cancelled", NoArg)>>)
              ELSE /\ th' = [th EXCEPT ![t].pc = "t_io2"]
                   /\ UNCHANGED queue
         ELSE TestReport(t, "sensor_test_failure")
    /\ UNCHANGED <<fgVars, cancel_fetch, cancel_test, lock>>

\* test_sensor_thread_sdi12, lines 197-215: read_sensor returns.
Sdi12ReadReturn(t) ==
    /\ th[t].kind = "test_sdi12" /\ th[t].pc = "t_io2"
    /\ \E o \in IoOutcomes(th[t].hnd, th[t].addr) :
         IF o = "ok"
         THEN TestReport(t, "sensor_test_success")
         ELSE TestReport(t, "sensor_test_failure")
    /\ UNCHANGED <<fgVars, cancel_fetch, cancel_test, lock>>

(* ---------------------------- foreground thread ------------------------ *)
\* The foreground thread is in the Tk main loop, between two callbacks.
Idle == fgpc = "idle"

\* handle_connect, lines 166-174; client setter, lines 289-292;
\* connect_modbus_client, lines 329-339.
ConnectModbus ==
    /\ Idle /\ client = NoneId
    /\ nhandles < MaxConnects /\ nthreads < MaxThreads
    /\ lock = LockFree
    /\ \E opened \in BOOLEAN :
          broken' = IF opened THEN broken ELSE broken \cup {nhandles + 1}
    /\ nhandles' = nhandles + 1
    /\ client' = nhandles + 1
    /\ cproto' = "modbus"
    /\ connected' = TRUE
    /\ nthreads' = nthreads + 1
    /\ fetch_thread' = nthreads + 1
    /\ th' = [Reap(th) EXCEPT ![nthreads + 1] =
                               [NewThread("fetch") EXCEPT !.cfg = lastCfg]]
    /\ UNCHANGED <<closed, slave_id, restart_missing, cancel_fetch,
                   cancel_test, lock, test_thread, test_thread_sdi12, queue,
                   fgpc, fgret, dsleep, pollAlive, lastCfg, devAddr,
                   sent, recv, ndisconnected, bcast, nrejected,
                   attached, nattach>>

\* Mutant of ConnectSdi12: the fetched address is not recorded.
ConnectSdi12_KeepsAddress ==
    /\ Idle /\ client = NoneId
    /\ nhandles < MaxConnects
    /\ nhandles' = nhandles + 1
    /\ client' = nhandles + 1
    /\ cproto' = "sdi12"
    /\ connected' = TRUE
    /\ \/ /\ UNCHANGED broken
          /\ th' = Reap(th)
       \/ /\ broken' = broken \cup {nhandles + 1}
          /\ th' = Reap(th)
    /\ UNCHANGED <<slave_id, restart_missing, lastCfg>>
    /\ UNCHANGED <<closed, cancel_fetch, cancel_test, lock,
                   fetch_thread, test_thread, test_thread_sdi12, nthreads,
                   queue, fgpc, fgret, dsleep, pollAlive, devAddr,
                   sent, recv, ndisconnected, bcast, nrejected,
                   attached, nattach>>

\* handle_connect, lines 175-181; client setter, lines 293-294;
\* connect_sdi12_client, lines 341-352, with SDI12Client.fetch_id, which
\* returns the address of the sensor or None. The slave_id setter notifies
\* slave_id_changed, on which LoggingFrame clears restart_missing.
ConnectSdi12 ==
    /\ Idle /\ client = NoneId
    /\ nhandles < MaxConnects
    /\ nhandles' = nhandles + 1
    /\ client' = nhandles + 1
    /\ cproto' = "sdi12"
    /\ connected' = TRUE
    /\ \/ /\ UNCHANGED broken
          /\ \E r \in {devAddr, NoneId} : slave_id' = r
          /\ restart_missing' = FALSE
          /\ th' = MarkDirty(Reap(th))
          /\ lastCfg' = NoneId
       \/ /\ broken' = broken \cup {nhandles + 1}
          /\ th' = Reap(th)
          /\ UNCHANGED <<slave_id, restart_missing, lastCfg>>
    /\ UNCHANGED <<closed, cancel_fetch, cancel_test, lock,
                   fetch_thread, test_thread, test_thread_sdi12, nthreads,
                   queue, fgpc, fgret, dsleep, pollAlive, devAddr,
                   sent, recv, ndisconnected, bcast, nrejected,
                   attached, nattach>>

\* Lines 309 and 267: is self._test_thread alive, so that it is joined?
AfterJoinFetch == IF IsAlive(test_thread) THEN "d_join_test" ELSE "d_lock"

\* Mutant of Teardown: the discovery worker is not asked to stop.
Teardown_NoCancelFetch(thr, ret) ==
    /\ cancel_test' = TRUE
    /\ IF cproto = "modbus"
       THEN /\ th' = MarkCancel(thr, TestKinds)
            /\ fgpc' = IF IsAlive(fetch_thread) THEN "d_join_fetch"
                       ELSE AfterJoinFetch
            /\ UNCHANGED cancel_fetch
       ELSE /\ th' = MarkCancel(thr, TestKinds)
            /\ fgpc' = AfterJoinFetch
            /\ UNCHANGED cancel_fetch
    /\ fgret' = ret
    /\ dsleep' = {t \in Threads : thr[t].kind \in TestKinds /\ thr[t].pc = "t_sleep"}

\* client setter with None, lines 261-266, and disconnect_modbus_client,
\* lines 299-303: request cancellation, then wait for the workers that are
\* alive. thr is the thread table the teardown starts from, ret where the
\* foreground continues afterwards.
Teardown(thr, ret) ==
    /\ cancel_test' = TRUE
    /\ IF cproto = "modbus"
       THEN /\ cancel_fetch' = TRUE
            /\ th' = MarkCancel(thr, {"fetch"} \cup TestKinds)
            /\ fgpc' = IF IsAlive(fetch_thread) THEN "d_join_fetch"
                       ELSE AfterJoinFetch
       ELSE /\ th' = MarkCancel(thr, TestKinds)
            /\ fgpc' = AfterJoinFetch
            /\ UNCHANGED cancel_fetch
    /\ fgret' = ret
    /\ dsleep' = {t \in Threads : thr[t].kind \in TestKinds /\ thr[t].pc = "t_sleep"}

\* handle_connect, lines 163-165: the button disconnects an open client.
Disconnect ==
    /\ Idle /\ client # NoneId
    /\ Teardown(Reap(th), "idle")
    /\ UNCHANGED <<client, cproto, closed, broken, nhandles, connected, slave_id,
                   restart_missing, lock, fetch_thread, test_thread,
                   test_thread_sdi12, nthreads, queue, pollAlive,
                   lastCfg, devAddr,
                   sent, recv, ndisconnected, bcast, nrejected,
                   attached, nattach>>

\* Variables the waiting steps of the foreground leave alone.
joinVars == <<client, cproto, closed, broken, nhandles, connected, slave_id,
              restart_missing, cancel_fetch, cancel_test, lock, fetch_thread,
              test_thread, test_thread_sdi12, th, nthreads, queue, fgret,
              dsleep, pollAlive, lastCfg, devAddr,
          sent, recv, ndisconnected, bcast, nrejected,
                   attached, nattach>>

\* disconnect_modbus_client, lines 303-307: join(timeout=2.0) returns, the
\* fetch thread having ended or the timeout having expired.
JoinFetch ==
    /\ fgpc = "d_join_fetch"
    /\ fgpc' = AfterJoinFetch
    /\ UNCHANGED joinVars

\* Mutant of JoinTest: join() without a timeout.
JoinTest_NoTimeout ==
    /\ fgpc = "d_join_test"
    /\ ~IsAlive(test_thread)
    /\ fgpc' = "d_lock"
    /\ UNCHANGED joinVars

\* Lines 267-271 and 309-313: the same for self._test_thread.
JoinTest ==
    /\ fgpc = "d_join_test"
    /\ fgpc' = "d_lock"
    /\ UNCHANGED joinVars

\* Mutant of ClientLockFree: the teardown does not wait for the lock.
ClientLockFree_Ignored == TRUE

\* `with self._client_lock`, lines 272 and 316: the foreground takes the
\* lock, which it releases within the same step.
ClientLockFree == lock = LockFree

\* Mutant of NotifyDisconnected: the notification is sent twice.
NotifyDisconnected_Twice == ndisconnected' = ndisconnected + 2

\* client setter, line 286: notify client_disconnected.
NotifyDisconnected == ndisconnected' = ndisconnected + 1

\* Mutant of Close: is_client_connected is left set.
Close_StaysOpen ==
    /\ fgpc = "d_lock"
    /\ ClientLockFree
    /\ NotifyDisconnected
    /\ closed' = closed \cup {client}
    /\ broken' = IF InUse(client) THEN broken ELSE broken \ {client}
    /\ client' = NoneId
    /\ cproto' = "none"
    /\ fgpc' = fgret
    /\ fgret' = "idle"
    /\ dsleep' = {}
    /\ UNCHANGED <<nhandles, connected, slave_id, restart_missing,
                   cancel_fetch, cancel_test, lock, fetch_thread, test_thread,
                   test_thread_sdi12, th, nthreads, queue, pollAlive,
                   lastCfg, devAddr,
                   sent, recv, bcast, nrejected,
                   attached, nattach>>

\* Lines 273-286 and 316-327: with the lock, clear the slot and close the
\* port; then is_client_connected = False and notify client_disconnected.
Close ==
    /\ fgpc = "d_lock"
    /\ ClientLockFree
    /\ NotifyDisconnected
    /\ closed' = closed \cup {client}
    /\ broken' = IF InUse(client) THEN broken ELSE broken \ {client}
    /\ client' = NoneId
    /\ cproto' = "none"
    /\ connected' = FALSE
    /\ fgpc' = fgret
    /\ fgret' = "idle"
    /\ dsleep' = {}
    /\ UNCHANGED <<nhandles, slave_id, restart_missing, cancel_fetch,
                   cancel_test, lock, fetch_thread, test_thread,
                   test_thread_sdi12, th, nthreads, queue, pollAlive,
                   lastCfg, devAddr,
                   sent, recv, bcast, nrejected,
                   attached, nattach>>

\* test_sensor(tab=0), lines 228-234.
TestSensorStop ==
    /\ Idle
    /\ cancel_test' = TRUE
    /\ th' = MarkCancel(Reap(th), TestKinds)
    /\ fgpc' = IF IsAlive(test_thread) THEN "ts_join" ELSE "idle"
    /\ UNCHANGED <<client, cproto, closed, broken, nhandles, connected, slave_id,
                   restart_missing, cancel_fetch, lock, fetch_thread,
                   test_thread, test_thread_sdi12, nthreads, queue, fgret,
                   dsleep, pollAlive, lastCfg, devAddr,
          sent, recv, ndisconnected, bcast, nrejected,
                   attached, nattach>>

\* test_sensor(tab=0), lines 231-233: join(timeout=2.0) returns.
TestSensorJoin ==
    /\ fgpc = "ts_join"
    /\ fgpc' = "idle"
    /\ UNCHANGED joinVars

\* test_sensor(tab#0), lines 236-246.
TestSensorStart ==
    /\ Idle
    /\ nthreads < MaxThreads
    /\ ~IsAlive(test_thread)
    /\ nthreads' = nthreads + 1
    /\ IF client # NoneId /\ cproto = "sdi12"
       THEN /\ test_thread_sdi12' = nthreads + 1
            /\ th' = [Reap(th) EXCEPT ![nthreads + 1] = NewThread("test_sdi12")]
            /\ UNCHANGED test_thread
       ELSE /\ test_thread' = nthreads + 1
            /\ th' = [Reap(th) EXCEPT ![nthreads + 1] = NewThread("test")]
            /\ UNCHANGED test_thread_sdi12
    /\ UNCHANGED <<client, cproto, closed, broken, nhandles, connected, slave_id,
                   restart_missing, cancel_fetch, cancel_test, lock,
                   fetch_thread, queue, fgpc, fgret, dsleep,
                   pollAlive, lastCfg, devAddr,
                   sent, recv, ndisconnected, bcast, nrejected,
                   attached, nattach>>

\* slave_id setter, lines 378-381: the address the session starts from,
\* set before its first connection. The setter notifies slave_id_changed,
\* on which LoggingFrame.update_event clears restart_missing.
SetSlaveId(v) ==
    /\ Idle /\ nhandles = 0 /\ nthreads = 0
    /\ v # slave_id
    /\ slave_id' = v
    /\ restart_missing' = FALSE
    /\ UNCHANGED <<client, cproto, closed, broken, nhandles, connected,
                   cancel_fetch, cancel_test, lock,
                   fetch_thread, test_thread, test_thread_sdi12, th, nthreads,
                   queue, fgpc, fgret, dsleep, pollAlive, lastCfg, devAddr,
                   sent, recv, ndisconnected, bcast, nrejected,
                   attached, nattach>>

\* restart_missing setter, lines 407-409: the flag the session starts from,
\* set before its first connection.
SetRestartMissing(b) ==
    /\ Idle /\ nhandles = 0 /\ nthreads = 0
    /\ b # restart_missing
    /\ restart_missing' = b
    /\ UNCHANGED <<client, cproto, closed, broken, nhandles, connected, slave_id,
                   cancel_fetch, cancel_test, lock, fetch_thread, test_thread,
                   test_thread_sdi12, th, nthreads, queue, fgpc, fgret,
                   dsleep, pollAlive, lastCfg, devAddr,
          sent, recv, ndisconnected, bcast, nrejected,
                   attached, nattach>>

\* Mutant of ChangeSensorSettings: the new address is not recorded.
ChangeSensorSettings_NotRecorded(new) ==
    /\ Idle
    /\ client # NoneId /\ slave_id # NoneId
    /\ cproto = "modbus"
    /\ "ok" \in IoOutcomes(client, slave_id)
    /\ devAddr' = new
    /\ UNCHANGED <<sent, recv, ndisconnected, bcast, nrejected,
                   attached, nattach>>
    /\ lastCfg' = new
    /\ th' = MarkDirty(Reap(th))
    /\ UNCHANGED <<client, cproto, closed, broken, nhandles, connected, lock,
                   fetch_thread, test_thread, test_thread_sdi12, nthreads,
                   queue, pollAlive, slave_id, restart_missing, cancel_fetch,
                   cancel_test, fgpc, fgret, dsleep>>

\* SensorIdFrame.change_sensor_settings, lines 83-136, with a valid new
\* address on an open client with a recorded address, when the driver's
\* setup_sensor write is acknowledged: the device moves to the new address.
\* The slave_id setter notifies slave_id_changed, on which LoggingFrame
\* clears restart_missing. notify(apply_sensor_settings, ...) carries a
\* payload; when it raises, the handler ends there, otherwise
\* SensorSettingsFrame.update_event, lines 218-244, notifies
\* reboot_required, which tears the session down, and restart_missing is
\* set.
ChangeSensorSettings(new) ==
    /\ Idle
    /\ client # NoneId /\ slave_id # NoneId
    /\ cproto = "modbus"
    /\ "ok" \in IoOutcomes(client, slave_id)
    /\ devAddr' = new
    /\ UNCHANGED <<sent, recv, ndisconnected, bcast, nrejected,
                   attached, nattach>>
    /\ slave_id' = new
    /\ lastCfg' = new
    /\ IF NotifyRaises(Ev("apply_sensor_settings", 1))
       THEN /\ th' = MarkDirty(Reap(th))
            /\ restart_missing' = FALSE
            /\ UNCHANGED <<cancel_fetch, cancel_test, fgpc, fgret, dsleep>>
       ELSE /\ restart_missing' = TRUE
            /\ Teardown(MarkDirty(Reap(th)), "idle")
    /\ UNCHANGED <<client, cproto, closed, broken, nhandles, connected, lock,
                   fetch_thread, test_thread, test_thread_sdi12, nthreads,
                   queue, pollAlive>>

\* Mutant of ClearsClient: the teardown also runs without a client.
ClearsClient_Always(ev) ==
    ev.type \in {"slave_id_fetch_error", "reboot_required"}

\* SensorSettingsFrame.update_event, lines 211-216, assigns client = None
\* on slave_id_fetch_error and on reboot_required; the client setter, line
\* 261, tears the session down only when a client is stored.
ClearsClient(ev) ==
    /\ ev.type \in {"slave_id_fetch_error", "reboot_required"}
    /\ client # NoneId

\* check_queue, lines 44-51, one turn of its loop: get_nowait and notify.
\* A payload event raises in the first observer: the exception leaves
\* check_queue and MainApp._check_queue before self.after re-arms the
\* poll. SensorSettingsFrame.update_event, lines 211-216, reacts to
\* slave_id_fetch_error by forgetting the address (and LoggingFrame, to
\* the setter's slave_id_changed, by clearing restart_missing), and to
\* slave_id_fetch_error and reboot_required by clearing the client.
DrainEvent ==
    /\ \/ Idle /\ pollAlive
       \/ fgpc = "drain"
    /\ queue # <<>>
    /\ queue' = IF NotifyRaises(Head(queue)) THEN <<>> ELSE Tail(queue)
    /\ LET ev == Head(queue)
           forget == ev.type = "slave_id_fetch_error"
           thr == IF forget /\ (slave_id # NoneId \/ restart_missing)
                  THEN MarkDirty(Reap(th)) ELSE Reap(th)
       IN  IF NotifyRaises(ev)
           THEN /\ pollAlive' = FALSE
                /\ fgpc' = "idle"
                /\ th' = thr
                /\ UNCHANGED <<slave_id, restart_missing, lastCfg,
                               cancel_fetch, cancel_test, fgret, dsleep>>
           ELSE /\ slave_id' = IF forget THEN NoneId ELSE slave_id
                /\ restart_missing' = IF forget THEN FALSE ELSE restart_missing
                /\ lastCfg' = IF forget THEN NoneId ELSE lastCfg
                /\ UNCHANGED pollAlive
                /\ IF ClearsClient(ev)
                   THEN Teardown(thr, "drain")
                   ELSE /\ fgpc' = "drain"
                        /\ th' = thr
                        /\ UNCHANGED <<cancel_fetch, cancel_test, fgret,
                                       dsleep>>
    /\ UNCHANGED <<client, cproto, closed, broken, nhandles, connected,
                   lock, fetch_thread, test_thread,
                   test_thread_sdi12, nthreads, devAddr,
                   sent, recv, ndisconnected, bcast, nrejected,
                   attached, nattach>>

\* check_queue, lines 50-51: queue.Empty ends the loop.
DrainEnd ==
    /\ fgpc = "drain"
    /\ queue = <<>>
    /\ fgpc' = "idle"
    /\ UNCHANGED joinVars

(* ---------------------------- specification ---------------------------- *)
Worker(t) ==
    \/ FetchStart(t)
    \/ TestCurrentIdEnter(t)
    \/ TestCurrentIdLock(t)
    \/ TestCurrentIdReturn(t)
    \/ FetchRestartGate(t)
    \/ FetchLoop(t)
    \/ FetchProbeBegin(t)
    \/ FetchProbeReturn(t)
    \/ TestStart(t)
    \/ TestLoop(t)
    \/ TestSnapshot(t)
    \/ TestReadReturn(t)
    \/ Sdi12RequestReturn(t)
    \/ Sdi12ReadReturn(t)

Foreground ==
    \/ ConnectModbus
    \/ ConnectSdi12
    \/ Disconnect
    \/ JoinFetch
    \/ JoinTest
    \/ Close
    \/ TestSensorStop
    \/ TestSensorJoin
    \/ TestSensorStart
    \/ \E v \in SlaveIds \cup {NoneId} : SetSlaveId(v)
    \/ \E b \in BOOLEAN : SetRestartMissing(b)
    \/ \E new \in SlaveIds : ChangeSensorSettings(new)
    \/ DrainEvent
    \/ DrainEnd

Next == Foreground \/ \E t \in Threads : Worker(t)

Spec == Init /\ [][Next]_vars

(* ---------------------------- event delivery --------------------------- *)
\* The path of an event from a worker to the observers, on its own: the
\* workers put stamped events on AppState.queue, check_queue hands them to
\* the observers. queue holds every event put and not yet taken.

\* Events one worker puts on the queue.
MaxEmit == 2

\* What the delivery of events leaves alone.
sessionVars == <<client, cproto, closed, broken, nhandles, connected,
                 slave_id, restart_missing, cancel_fetch, cancel_test, lock,
                 fetch_thread, test_thread, test_thread_sdi12, th, nthreads,
                 fgret, dsleep, lastCfg, devAddr, ndisconnected,
                 bcast, nrejected,
                   attached, nattach>>

\* The k-th event of worker w, with (a # NoArg) or without keyword payload.
Stamped(w, k, a) == [src |-> w, seq |-> k, arg |-> a]

\* update_event of observer o raises for event ev: the first observer,
\* SensorSelectionNoteBook.update_event(event_type, data=None), lines
\* 168-178, takes no other keyword; the others take **kwargs.
ObserverRaises(o, ev) == o = 1 /\ ev.arg # NoArg

\* Subject.notify, lines 26-29, walks the list l: the positions whose
\* update_event is called and returns, which are those up to the first
\* observer whose update_event raises.
Returned(l, ev) ==
    {i \in 1..Len(l) : \A j \in 1..i : ~ObserverRaises(l[j], ev)}

\* Subject.notify, lines 26-29: the observers are called in the order they
\* were attached, up to the first whose update_event raises.
Notified(ev) == {attached[i] : i \in Returned(attached, ev)}

\* Mutant of QueuePut: the worker calls notify itself and queues nothing.
QueuePut_Direct(e) ==
    /\ queue' = queue
    /\ recv' = [o \in Observers |->
                 IF o \in Notified(e) THEN Append(recv[o], e) ELSE recv[o]]

\* _queue_notify, lines 53-55: self.queue.put((event_type, kwargs)), and
\* nothing else: no observer is called.
QueuePut(e) ==
    /\ queue' = Append(queue, e)
    /\ UNCHANGED recv

\* Mutant of QueueNotify: the event is put at the front of the queue.
QueueNotify_Front(w, a) ==
    /\ Len(sent[w]) < MaxEmit
    /\ sent' = [sent EXCEPT ![w] = Append(@, Stamped(w, Len(@) + 1, a))]
    /\ queue' = <<Stamped(w, Len(sent[w]) + 1, a)>> \o queue
    /\ UNCHANGED <<sessionVars, fgpc, pollAlive, recv>>

\* _queue_notify, lines 53-55, called by a worker: queue.put.
QueueNotify(w, a) ==
    /\ Len(sent[w]) < MaxEmit
    /\ sent' = [sent EXCEPT ![w] = Append(@, Stamped(w, Len(@) + 1, a))]
    /\ QueuePut(Stamped(w, Len(sent[w]) + 1, a))
    /\ UNCHANGED <<sessionVars, fgpc, pollAlive>>

\* check_queue, lines 44-51, one turn of its loop: get_nowait, then notify.
\* An exception of an observer leaves notify, check_queue and
\* MainApp._check_queue, lines 43-46, before self.after re-arms the poll.
CheckQueue ==
    /\ \/ Idle /\ pollAlive
       \/ fgpc = "drain"
    /\ queue # <<>>
    /\ queue' = Tail(queue)
    /\ recv' = [o \in Observers |->
                 IF o \in Notified(Head(queue))
                 THEN Append(recv[o], Head(queue)) ELSE recv[o]]
    /\ IF NotifyRaises(Head(queue))
       THEN pollAlive' = FALSE /\ fgpc' = "idle"
       ELSE fgpc' = "drain" /\ UNCHANGED pollAlive
    /\ UNCHANGED <<sessionVars, sent>>

InitDelivery == Init /\ devAddr = NoneId

NextDelivery ==
    \/ \E w \in Threads, a \in {NoArg, 1} : QueueNotify(w, a)
    \/ CheckQueue
    \/ DrainEnd

SpecDelivery == InitDelivery /\ [][NextDelivery]_vars

(* ---------------------------- discovery and broadcast ------------------ *)
\* The discovery run of one connection on a bus whose device may answer
\* broadcast reads, as every Modbus sensor of the library declares
\* (can_broadcast_read, modbus_sensors_library.py).

\* The steps of fetch_slave_id_thread, lines 57-135.
Discovery(t) ==
    \/ FetchStart(t)
    \/ TestCurrentIdEnter(t)
    \/ TestCurrentIdLock(t)
    \/ TestCurrentIdReturn(t)
    \/ FetchRestartGate(t)
    \/ FetchLoop(t)
    \/ FetchProbeBegin(t)
    \/ FetchProbeReturn(t)

InitProbe == InitSession /\ bcast \in BOOLEAN /\ MainAppAttached

NextProbe ==
    \/ \E v \in SlaveIds \cup {NoneId} : SetSlaveId(v)
    \/ \E b \in BOOLEAN : SetRestartMissing(b)
    \/ ConnectModbus
    \/ \E t \in Threads : Discovery(t)

SpecProbe == InitProbe /\ [][NextProbe]_vars

(* ---------------------------- configure turned down -------------------- *)
\* Configure requests the handler turns down, counted.
MaxRejects == 2

\* Mutant of ConfigureRejected: the error notification returns and the
\* handler goes on after the try statement.
ConfigureRejected_FallsThrough(new) ==
    /\ Idle
    /\ client = NoneId \/ slave_id = NoneId
    /\ nrejected < MaxRejects
    /\ nrejected' = nrejected + 1
    /\ slave_id' = new
    /\ restart_missing' = TRUE
    /\ th' = MarkDirty(Reap(th))
    /\ UNCHANGED <<client, cproto, closed, broken, nhandles, connected,
                   cancel_fetch, cancel_test, lock, fetch_thread,
                   test_thread, test_thread_sdi12, nthreads, queue, fgpc,
                   fgret, dsleep, pollAlive, lastCfg, devAddr, sent, recv,
                   ndisconnected, bcast, attached, nattach>>

\* SensorIdFrame.change_sensor_settings, lines 83-136, and
\* SensorIdFrameSdi12.change_sensor_id, lines 199-236, with a valid new
\* address when there is no client or no recorded address: the else
\* branch, lines 116-120 and 222-226, notifies error with a payload inside
\* the try statement. When that notify raises, the except clause, lines
\* 121-126 and 227-232, notifies error again, and this exception ends the
\* handler; otherwise the handler goes on to lines 127-133.
ConfigureRejected(new) ==
    /\ Idle
    /\ client = NoneId \/ slave_id = NoneId
    /\ nrejected < MaxRejects
    /\ nrejected' = nrejected + 1
    /\ IF NotifyRaises(Ev("error", 1))
       THEN /\ th' = Reap(th)
            /\ UNCHANGED <<slave_id, restart_missing>>
       ELSE /\ slave_id' = new
            /\ restart_missing' = TRUE
            /\ th' = MarkDirty(Reap(th))
    /\ UNCHANGED <<client, cproto, closed, broken, nhandles, connected,
                   cancel_fetch, cancel_test, lock, fetch_thread,
                   test_thread, test_thread_sdi12, nthreads, queue, fgpc,
                   fgret, dsleep, pollAlive, lastCfg, devAddr, sent, recv,
                   ndisconnected, bcast, attached, nattach>>

\* The configure handler in a session that connects once.
NextConfigure ==
    \/ \E v \in SlaveIds \cup {NoneId} : SetSlaveId(v)
    \/ \E b \in BOOLEAN : SetRestartMissing(b)
    \/ ConnectModbus
    \/ ConnectSdi12
    \/ \E t \in Threads : Discovery(t)
    \/ \E new \in SlaveIds : ChangeSensorSettings(new)
    \/ \E new \in SlaveIds : ConfigureRejected(new)

SpecConfigure == Init /\ [][NextConfigure]_vars

(* ---------------------------- attach and notify ------------------------ *)
\* The Subject on its own, from its construction: observers are attached
\* in any order, any number of times, and events are notified.

\* Calls of attach.
MaxAttach == 5

\* What attach and notify leave alone.
subjectFrame == <<client, cproto, closed, broken, nhandles, connected,
                  slave_id, restart_missing, cancel_fetch, cancel_test, lock,
                  fetch_thread, test_thread, test_thread_sdi12, th, nthreads,
                  queue, fgpc, fgret, dsleep, pollAlive, lastCfg, devAddr,
                  sent, ndisconnected, bcast, nrejected>>

\* The observers in the list l.
Members(l) == {l[i] : i \in 1..Len(l)}

\* Mutant of Attach: the observer is appended whether or not it is in the
\* list.
Attach_Again(o) ==
    /\ nattach < MaxAttach
    /\ nattach' = nattach + 1
    /\ attached' = Append(attached, o)
    /\ UNCHANGED <<subjectFrame, recv>>

\* Subject.attach, lines 17-20.
Attach(o) ==
    /\ nattach < MaxAttach
    /\ nattach' = nattach + 1
    /\ attached' = IF o \in Members(attached) THEN attached
                   ELSE Append(attached, o)
    /\ UNCHANGED <<subjectFrame, recv>>

\* Subject.notify, lines 26-29, called on the foreground thread with an
\* event with (a # NoArg) or without keyword payload: update_event is
\* called once for each position of the list, up to the first that raises.
SubjectNotify(a) ==
    /\ \A o \in Observers : Len(recv[o]) < MaxEmit
    /\ recv' = [o \in Observers |->
                 recv[o] \o [k \in 1..Cardinality(
                                {i \in Returned(attached, Stamped(0, 0, a)) :
                                    attached[i] = o})
                             |-> Stamped(0, 0, a)]]
    /\ UNCHANGED <<subjectFrame, attached, nattach>>

\* Subject.__init__, lines 14-15: no observer.
InitAttach ==
    /\ InitSession /\ bcast = FALSE
    /\ attached = <<>> /\ nattach = 0

NextAttach ==
    \/ \E o \in Observers : Attach(o)
    \/ \E a \in {NoArg, 1} : SubjectNotify(a)

SpecAttach == InitAttach /\ [][NextAttach]_vars

(* ---------------------------- properties ------------------------------- *)
\* Thread t is a discovery run that has ended and whose record is kept.
Over(t) == th[t].kind = "fetch" /\ th[t].pc \in {"done", "crashed"}

\* A discovery run nothing disturbed: no cancel request reached it, its
\* inputs did not change under it and no transport error hit it. In a
\* state where Over(t) holds, slave_id, restart_missing and devAddr are then
\* what they were throughout the run.
Quiet(t) == Over(t) /\ ~th[t].creq /\ th[t].clean

\* The Scanning events of a log: fetching_slave_id with an address.
Scans(l) == SelectSeq(l, LAMBDA e : e.type = "fetching_slave_id" /\ e.arg # NoArg)

\* Occurrences of the event type in a log.
Count(l, type) == Cardinality({i \in 1..Len(l) : l[i].type = type})

\* The address scan was entered: fetching_slave_id without address, line 72.
Scanned(t) == \E i \in 1..Len(th[t].log) :
                 th[t].log[i] = Ev("fetching_slave_id", NoArg)

\* Scanning events for the addresses 0..a in ascending order.
Upto(a) == [i \in 1..(a + 1) |-> Ev("fetching_slave_id", i - 1)]

\* Positions at which a worker is inside a driver call.
IoPcs == {"tc_io", "fs_io", "t_io", "t_io2"}

\* C1: for every address a of the address space, an undisturbed scan on a
\* bus where only a answers ends with exactly one slave_id_fetched(a), after
\* Scanning events for exactly 0..a in ascending order.
C1_ScanFindsEveryAddress ==
    \A t \in Threads :
        (Quiet(t) /\ Scanned(t) /\ devAddr \in SlaveIds)
        => /\ Scans(th[t].log) = Upto(devAddr)
           /\ Count(th[t].log, "slave_id_fetched") = 1
           /\ th[t].log[Len(th[t].log)] = Ev("slave_id_fetched", devAddr)

\* C2: when no device answers, an undisturbed scan emits one Scanning event
\* for every address of the address space, the top address included, then
\* exactly one slave_id_fetch_error.
C2_ScanProbesWholeSpace ==
    \A t \in Threads :
        (Quiet(t) /\ Scanned(t) /\ devAddr = NoneId)
        => /\ Scans(th[t].log) = Upto(MaxSlaveId)
           /\ Count(th[t].log, "slave_id_fetch_error") = 1
           /\ th[t].log[Len(th[t].log)] = Ev("slave_id_fetch_error", NoArg)

\* C3: no worker is inside a driver call on a handle that has been closed:
\* the teardown closes no handle in use and no I/O follows the close.
C3_NoUseAfterClose ==
    \A t \in Threads : th[t].pc \in IoPcs => th[t].hnd \notin closed

\* C4: a discovery run that a cancel request reached while it was running
\* ends with slave_id_fetch_cancelled as its last event.
C4_CancelEndsCancelled ==
    \A t \in Threads :
        (Over(t) /\ th[t].creq)
        => /\ th[t].log # <<>>
           /\ th[t].log[Len(th[t].log)] = Ev("slave_id_fetch_cancelled", NoArg)

C6_DisconnectNeverBlocked ==
    fgpc \in {"d_join_fetch", "d_join_test", "d_lock"}
    => ENABLED (JoinFetch \/ JoinTest \/ Close)

\* C7: a worker inside a driver call does not hold the client lock.
C7_NoLockDuringIo ==
    \A t \in Threads : th[t].pc \in IoPcs => lock # t

\* C8: an undisturbed discovery run that starts from a recorded address at
\* which the device answers emits verifying_current_id, slave_id_valid and
\* current_id_valid for that address and ends, with no Scanning event and
\* no read of any other address.
C8_ValidIdShortCircuits ==
    \A t \in Threads :
        (Quiet(t) /\ slave_id # NoneId /\ slave_id = devAddr)
        => /\ th[t].pc = "done"
           /\ th[t].log = <<Ev("verifying_current_id", slave_id),
                            Ev("slave_id_valid", slave_id),
                            Ev("current_id_valid", slave_id)>>
           /\ Scans(th[t].log) = <<>>
           /\ th[t].ios = <<slave_id>>

\* C8 witness: such a run has ended with current_id_valid.
C8_Witness ==
    \E t \in Threads :
        /\ Quiet(t) /\ slave_id # NoneId /\ slave_id = devAddr
        /\ Len(th[t].log) = 3
        /\ th[t].log[3] = Ev("current_id_valid", slave_id)

\* C9: with restart_missing set, an undisturbed discovery run whose
\* recorded address does not answer the verification read ends with
\* reboot_required, with no Scanning event and no probe.
C9_RestartMissingShortCircuits ==
    \A t \in Threads :
        (Quiet(t) /\ restart_missing /\ slave_id # NoneId /\ slave_id # devAddr)
        => /\ th[t].pc = "done"
           /\ th[t].log = <<Ev("verifying_current_id", slave_id),
                            Ev("slave_id_invalid", slave_id),
                            Ev("reboot_required", NoArg)>>
           /\ Scans(th[t].log) = <<>>
           /\ th[t].ios = <<slave_id>>

\* C9 witness: such a run has ended with reboot_required after the failed
\* verification read.
C9_Witness ==
    \E t \in Threads :
        /\ Quiet(t) /\ restart_missing /\ slave_id # NoneId /\ slave_id # devAddr
        /\ th[t].ios = <<slave_id>>
        /\ th[t].log[Len(th[t].log)] = Ev("reboot_required", NoArg)

\* C10: after a configure that moved the device to a new address the
\* session records that address, and an undisturbed discovery run of the
\* next connection verifies it: current_id_valid for the new address, no
\* Scanning event, no reboot_required.
C10_ConfigureRoundTrip ==
    /\ lastCfg # NoneId => (slave_id = lastCfg /\ devAddr = lastCfg)
    /\ \A t \in Threads :
          (Quiet(t) /\ th[t].cfg # NoneId)
          => /\ th[t].pc = "done"
             /\ th[t].log = <<Ev("verifying_current_id", th[t].cfg),
                              Ev("slave_id_valid", th[t].cfg),
                              Ev("current_id_valid", th[t].cfg)>>
             /\ Count(th[t].log, "reboot_required") = 0

\* C10 witness: a configure has moved the device, and the discovery run
\* of the second connection has verified the address it was moved to.
C10_Witness ==
    \E t \in Threads :
        /\ Quiet(t) /\ th[t].cfg # NoneId /\ th[t].cfg = slave_id
        /\ nhandles = 2
        /\ Len(th[t].log) = 3
        /\ th[t].log[3] = Ev("current_id_valid", th[t].cfg)


\* C11: a connect on a port that cannot be opened fails: no handle is
\* stored, the session does not become open and no discovery worker is
\* started on it.
C11_FailedConnectStaysClosed ==
    /\ client \notin broken
    /\ \A t \in Threads : Alive(t) => th[t].hnd \notin broken

\* C12: in every state a handle is stored exactly when the session is
\* marked open.
C12_HandleIffOpen == (client # NoneId) <=> connected

\* C12 witness: a session was closed and another one is open.
C12_Witness == closed # {} /\ client # NoneId /\ connected

\* The foreground is about to deliver an event that asks for a disconnect
\* while no client is stored.
SecondDisconnect ==
    /\ client = NoneId
    /\ queue # <<>>
    /\ Head(queue).type \in {"slave_id_fetch_error", "reboot_required"}
    /\ ~NotifyRaises(Head(queue))

\* C13: a disconnect of a session that is already disconnected changes
\* nothing of the session: no handle is closed again, no cancellation is
\* requested, no teardown is entered.
C13_DisconnectIdempotent ==
    [][(SecondDisconnect /\ DrainEvent) =>
          /\ UNCHANGED <<client, cproto, closed, broken, connected,
                         cancel_fetch, cancel_test, lock, fgret, dsleep,
                         nhandles>>
          /\ fgpc' = "drain"]_vars

\* C13 witness: such a disconnect is about to run after a session was
\* closed.
C13_Witness ==
    /\ SecondDisconnect
    /\ closed # {}
    /\ ENABLED DrainEvent

\* The workers of the given kinds that are alive.
AliveOf(kinds) == {t \in Threads : th[t].kind \in kinds /\ Alive(t)}

\* C14: at most one discovery worker is alive at any time.
C14_OneDiscoveryWorker == Cardinality(AliveOf({"fetch"})) <= 1

\* C15: at most one test-polling worker, of either variant, is alive at
\* any time.
C15_OneTestWorker == Cardinality(AliveOf(TestKinds)) <= 1

\* C16: a discovery worker and a test-polling worker are never alive at
\* the same time.
C16_DiscoveryExcludesTest == AliveOf({"fetch"}) = {} \/ AliveOf(TestKinds) = {}

\* C17: the configuration write of change_sensor_settings never starts
\* while a driver call of a worker is in progress on the same handle.
C17_ConfigureExcludesPolling ==
    [][(\E new \in SlaveIds : ChangeSensorSettings(new)) =>
          \A t \in Threads : ~(th[t].pc \in IoPcs /\ th[t].hnd = client)]_vars

\* The positions of sequence l.
Pos(l) == 1..Len(l)

\* C18: every observer is handed the events of one worker in the order the
\* worker queued them.
C18_EmissionOrder ==
    \A o \in Observers : \A i, j \in Pos(recv[o]) :
        (i < j /\ recv[o][i].src = recv[o][j].src)
            => recv[o][i].seq < recv[o][j].seq

\* C18 witness: every observer was handed two events of one worker, and the
\* other worker queued an event between the two.
C18_Witness ==
    /\ \A o \in Observers : \E i, j \in Pos(recv[o]) :
          /\ i + 1 < j
          /\ recv[o][i].src = recv[o][j].src
          /\ recv[o][i + 1].src # recv[o][i].src
    /\ queue = <<>>

\* C19: every event a worker queued and check_queue took off the queue was
\* handed to every attached observer.
C19_EveryObserverGetsEveryEvent ==
    \A w \in Threads : \A k \in Pos(sent[w]) :
        (\A q \in Pos(queue) : queue[q] # sent[w][k])
            => \A o \in Observers : \E i \in Pos(recv[o]) : recv[o][i] = sent[w][k]

\* The events that report the outcome of a discovery run.
Terminal == {"current_id_valid", "slave_id_fetched", "slave_id_fetch_error",
             "slave_id_fetch_cancelled", "reboot_required"}

\* C20: a discovery run that is over has queued exactly one outcome event.
C20_OneOutcomeEvent ==
    \A t \in Threads :
        Over(t) => Len(SelectSeq(th[t].log, LAMBDA e : e.type \in Terminal)) = 1

\* Positions at which a test worker reads the cancel flag: the while
\* condition on entry and after the sleep, and after a driver call.
TestCheckpoints == {"t_loop", "t_sleep", "t_io", "t_io2"}

\* C21: a test worker that ends at a checkpoint where the cancel flag is
\* set has queued exactly one sensor_test_cancelled.
C21_CancelledTestReports ==
    [][\A t \in Threads :
          (/\ th[t].kind \in TestKinds
           /\ th[t].pc \in TestCheckpoints
           /\ cancel_test
           /\ th'[t].pc = "done")
          => Count(th'[t].log, "sensor_test_cancelled") = 1]_vars

\* The last event of a log is of the given type.
EndsWith(l, type) == l # <<>> /\ l[Len(l)].type = type

\* C22: a worker that takes the lock and finds the client cleared ends as
\* cancelled: a discovery worker with slave_id_fetch_cancelled as its last
\* event, a test worker with sensor_test_cancelled, none by an exception
\* and none with another report.
C22_ClearedHandleIsCancellation ==
    [][\A t \in Threads :
          (client = NoneId /\ th'[t].pc # th[t].pc)
          => /\ th[t].pc \in {"tc_lock", "fs_lock"}
                  => /\ th'[t].pc = "done"
                     /\ EndsWith(th'[t].log, "slave_id_fetch_cancelled")
             /\ th[t].pc = "t_lock"
                  => /\ th'[t].pc = "done"
                     /\ EndsWith(th'[t].log, "sensor_test_cancelled")]_vars

\* C23: the session is marked connected only once discovery has ended:
\* while a discovery worker runs, is_client_connected is false.
C23_ConnectedAfterDiscovery ==
    \A t \in Threads : (th[t].kind = "fetch" /\ Alive(t)) => ~connected

\* An undisturbed discovery run whose recorded address did not answer the
\* verification read, with restart_missing clear.
FailedVerification(t) ==
    Quiet(t) /\ ~restart_missing /\ slave_id # NoneId /\ slave_id # devAddr

TeardownEvents == {"slave_id_fetch_error", "reboot_required"}

\* check_queue will still dispatch an event that clears the client.
TeardownPending ==
    pollAlive /\ \E i \in Pos(queue) : queue[i].type \in TeardownEvents

\* C24: when a discovery run has ended with reboot_required or
\* slave_id_fetch_error and the session it ran on is still open, with the
\* foreground between two callbacks, the event that tears the session
\* down is still going to be dispatched.
C24_HalfOpenSessionTornDown ==
    \A t \in Threads :
        (/\ Over(t) /\ ~th[t].creq
         /\ \E type \in TeardownEvents : EndsWith(th[t].log, type)
         /\ client # NoneId /\ Idle)
        => TeardownPending

\* C25: when an OSError leaves a driver call of a worker on the open
\* client, an event that tears the session down is on its way to the
\* foreground.
C25_TransportErrorTearsDown ==
    [][\A t \in Threads :
          (/\ th[t].pc \in IoPcs /\ th[t].hnd = client
           /\ th[t].err = "none" /\ th'[t].err = "oserror")
          => TeardownPending']_vars

\* C29: a discovery run in whose scan a probe raised OSError has ended,
\* its last event being its only slave_id_fetch_cancelled, and the failed
\* probe is its last probe, announced by its last Scanning event.
C29_ProbeErrorEndsScan ==
    \A t \in Threads :
        (th[t].kind = "fetch" /\ th[t].err = "oserror" /\ Scanned(t))
        => /\ th[t].pc = "done"
           /\ EndsWith(th[t].log, "slave_id_fetch_cancelled")
           /\ Count(th[t].log, "slave_id_fetch_cancelled") = 1
           /\ th[t].log[Len(th[t].log) - 1] =
                  Ev("fetching_slave_id", th[t].ios[Len(th[t].ios)])

\* C29 witness: a probe of a scan has raised OSError.
C29_Witness ==
    \E t \in Threads :
        /\ th[t].kind = "fetch" /\ th[t].err = "oserror" /\ Scanned(t)
        /\ th[t].pc = "done"

\* Positions at which a worker waits for the client lock.
LockPcs == {"tc_lock", "fs_lock", "t_lock"}

\* C26: the client is cleared and its port closed in one step of the
\* foreground that needs the lock and leaves it free, so a discovery
\* worker that holds the lock with a handle holds the stored client, which
\* is not closed.
C26_ClearedAndClosedUnderLock ==
    /\ [](\A t \in Threads :
            th[t].pc \in {"tc_io", "fs_io"}
            => (lock = t /\ th[t].hnd = client /\ client \notin closed))
    /\ [][(client # NoneId /\ client' = NoneId)
            => (lock = LockFree /\ lock' = LockFree /\ client \in closed')]_vars

\* C26 witness: a worker is about to take the lock after a disconnect
\* has cleared the client.
C26_Witness ==
    /\ client = NoneId /\ closed # {} /\ lock = LockFree
    /\ \E t \in Threads : th[t].pc \in LockPcs

\* C27: the step in which the foreground begins a teardown sets
\* cancel_test and, for a Modbus client, cancel_fetch; the joins come
\* after it.
C27_CancelBeforeJoin ==
    [][(fgpc \in {"idle", "drain"}
        /\ fgpc' \in {"d_join_fetch", "d_join_test", "d_lock"})
       => (cancel_test' /\ (cproto = "modbus" => cancel_fetch'))]_vars

\* C27 witness: the foreground waits for the discovery worker, a test
\* worker is alive too, and both flags are set.
C27_Witness ==
    /\ fgpc = "d_join_fetch"
    /\ IsAlive(fetch_thread) /\ IsAlive(test_thread)
    /\ cancel_fetch /\ cancel_test

\* C28: client_disconnected is notified once per disconnect of an open
\* session, in the step that leaves the client cleared, its port closed
\* and is_client_connected false, and in no other step.
C28_OneDisconnectedEvent ==
    /\ [](ndisconnected = Cardinality(closed))
    /\ [][/\ ndisconnected' # ndisconnected
             => /\ ndisconnected' = ndisconnected + 1
                /\ client # NoneId /\ client' = NoneId
                /\ client \in closed' /\ ~connected'
          /\ (client # NoneId /\ client' = NoneId)
             => ndisconnected' = ndisconnected + 1]_vars

\* C28 witness: two sessions were disconnected.
C28_Witness == ndisconnected = 2 /\ client = NoneId /\ ~connected

\* C31: reboot_required is emitted only by a discovery run that started
\* from a recorded address, announced its verification, read it and got
\* slave_id_invalid; a run that emitted current_id_valid emits no
\* reboot_required; an undisturbed run with no recorded address enters the
\* scan.
C31_RebootOnlyAfterFailedVerification ==
    \A t \in Threads :
        th[t].kind = "fetch"
        => /\ Count(th[t].log, "reboot_required") > 0
              => /\ Len(th[t].log) >= 3
                 /\ th[t].log[1].type = "verifying_current_id"
                 /\ th[t].log[2].type = "slave_id_invalid"
                 /\ th[t].ios # <<>>
           /\ Count(th[t].log, "current_id_valid") > 0
              => Count(th[t].log, "reboot_required") = 0
           /\ (Quiet(t) /\ slave_id = NoneId) => Scanned(t)

\* C32: a driver call of a test worker that returns while no cancellation
\* is requested never ends the worker: whatever error it raised, the
\* worker reports and goes to sleep (or, after the ascii request, on to the
\* read), in both variants.
C32_FailedReadKeepsPolling ==
    [][\A t \in Threads :
          (/\ th[t].kind \in TestKinds
           /\ th[t].pc \in {"t_io", "t_io2"}
           /\ th'[t].pc # th[t].pc
           /\ ~cancel_test)
          => th'[t].pc \in {"t_sleep", "t_io2"}]_vars

\* C33: a test worker for which cancellation has been requested reports no
\* further reading: no step of it ends in the sleep that follows a
\* sensor_test_success or sensor_test_failure.
C33_NoReportAfterCancel ==
    [][\A t \in Threads :
          (/\ th[t].kind \in TestKinds
           /\ th[t].creq
           /\ th'[t].pc # th[t].pc)
          => th'[t].pc # "t_sleep"]_vars

\* A connect step: the client goes from None to a handle.
Connects == client = NoneId /\ client' # NoneId

\* The step starts no thread: every thread record is what it was, dead
\* records dropped.
NoSpawn ==
    /\ nthreads' = nthreads
    /\ \A t \in Threads : /\ th'[t].kind = Reap(th)[t].kind
                          /\ th'[t].pc = Reap(th)[t].pc

\* C34: a connect on the register bus starts exactly one thread, a
\* discovery worker at its first statement, recorded as the fetch thread;
\* a connect on the ascii bus starts no thread, and when its port opened
\* the recorded address after it is what fetch_id returned: the address of
\* the device, or None.
C34_ConnectSpawnsByProtocol ==
    [][Connects
       => IF cproto' = "modbus"
          THEN /\ nthreads' = nthreads + 1
               /\ fetch_thread' = nthreads'
               /\ th'[nthreads'].kind = "fetch"
               /\ th'[nthreads'].pc = "start"
               /\ \A t \in Threads \ {nthreads'} : th'[t] = Reap(th)[t]
               /\ slave_id' = slave_id
          ELSE /\ NoSpawn
               /\ client' \notin broken' => slave_id' \in {devAddr, NoneId}]_vars

\* C34 witness: after a register-bus session, whose connect started the
\* one thread there is, an ascii-bus connect has recorded the address of
\* the device and started none.
C34_Witness ==
    /\ cproto = "sdi12" /\ client = 2 /\ client \notin broken
    /\ nthreads = 1 /\ fetch_thread = 1
    /\ slave_id # NoneId /\ slave_id = devAddr

\* C35: a step in which a worker emits an event puts that event at the
\* back of the queue and calls no observer; an observer receives an event
\* only in a step of check_queue on the foreground thread, which takes it
\* from the head of the queue.
C35_WorkersOnlyEnqueue ==
    [][/\ sent' # sent
          => /\ recv' = recv
             /\ \E w \in Threads :
                   /\ Len(sent'[w]) = Len(sent[w]) + 1
                   /\ sent' = [sent EXCEPT ![w] = Append(@, sent'[w][Len(sent'[w])])]
                   /\ queue' = Append(queue, sent'[w][Len(sent'[w])])
       /\ recv' # recv
          => /\ sent' = sent
             /\ (Idle /\ pollAlive) \/ fgpc = "drain"
             /\ queue # <<>> /\ queue' = Tail(queue)
             /\ \A o \in Observers :
                   recv'[o] \in {recv[o], Append(recv[o], Head(queue))}]_vars

\* C35 witness: check_queue has handed an event of a worker to every
\* observer while a later event of a worker is still on the queue, seen by
\* no observer.
C35_Witness ==
    /\ queue # <<>>
    /\ \A o \in Observers : Len(recv[o]) = 1 /\ recv[o][1].src \in Threads
    /\ \A o \in Observers : \A i \in 1..Len(recv[o]) : recv[o][i] # queue[1]
    /\ \E w \in Threads : Len(sent[w]) >= 1 /\ queue[1] = sent[w][Len(sent[w])]

\* C36: in the log of a discovery run every slave_id_fetched comes after a
\* Scanning event, and carries the address of the last one before it.
C36_FoundIsLastScanned ==
    \A t \in Threads :
        th[t].kind = "fetch"
        => \A i \in 1..Len(th[t].log) :
              th[t].log[i].type = "slave_id_fetched"
              => LET before == Scans(SubSeq(th[t].log, 1, i - 1))
                 IN  /\ before # <<>>
                     /\ before[Len(before)].arg = th[t].log[i].arg

\* C37: the first step of a discovery worker for which cancellation was
\* requested before it ran does not lose the request: the cancel flag is
\* still set after it.
C37_EarlyCancelHonoured ==
    [][\A t \in Threads :
          (/\ th[t].kind = "fetch"
           /\ th[t].pc = "start"
           /\ th[t].creq /\ cancel_fetch
           /\ th'[t].pc # "start")
          => cancel_fetch']_vars

\* C38: a configure request that is turned down because there is no client
\* or no recorded address changes nothing of the session: the recorded
\* address, the restart flag, the client, the connected flag, the threads
\* and the queue are what they were.
C38_RejectedConfigureKeepsState ==
    [][nrejected' # nrejected
       => /\ client = NoneId \/ slave_id = NoneId
          /\ slave_id' = slave_id
          /\ restart_missing' = restart_missing
          /\ UNCHANGED <<client, cproto, connected, queue, lastCfg, devAddr,
                         cancel_fetch, cancel_test, nthreads>>
          /\ th' = Reap(th)]_vars

\* C38 witness: a request was turned down for want of a client, and one
\* for want of a recorded address on an open client, and the restart flag
\* is still set.
C38_Witness ==
    /\ nrejected = 2
    /\ client # NoneId /\ slave_id = NoneId
    /\ restart_missing

\* Positions at which a worker is inside `with self._client_lock` with a
\* driver call in flight.
HoldPcs == {"tc_io", "fs_io"}

\* Positions at which the foreground waits in a join.
JoinPcs == {"d_join_fetch", "d_join_test", "ts_join"}

\* Somebody waits for the client lock.
LockWanted ==
    \/ fgpc = "d_lock"
    \/ \E t \in Threads : th[t].pc \in LockPcs

\* C39: the lock is free or held by a live worker inside a driver call,
\* never by a thread that ended and never by the foreground while it
\* joins; a join always returns; and whenever the lock is wanted while
\* held, its owner waits for nothing: the return of its driver call is
\* enabled.
C39_NoDeadlockAroundLock ==
    /\ lock \in {LockFree} \cup Threads
    /\ \A t \in Threads : lock = t => th[t].pc \in HoldPcs
    /\ fgpc \in JoinPcs => ENABLED (JoinFetch \/ JoinTest \/ TestSensorJoin)
    /\ (LockWanted /\ lock # LockFree)
       => ENABLED (TestCurrentIdReturn(lock) \/ FetchProbeReturn(lock))
    /\ (LockWanted /\ lock = LockFree)
       => ENABLED (Close \/ \E t \in Threads :
                      TestCurrentIdLock(t) \/ FetchProbeBegin(t) \/ TestSnapshot(t))

\* C39 witness: the foreground, past its joins, waits for the lock that a
\* discovery worker holds during a probe, while another worker waits for
\* it too.
C39_Witness ==
    /\ fgpc = "d_lock"
    /\ lock \in Threads
    /\ th[lock].pc = "fs_io"
    /\ \E t \in Threads : t # lock /\ th[t].pc \in LockPcs

====
